---- MODULE Spec2Model ----
(***************************************************************************)
(* Model of the SillyTavern PostgreSQL plugin (multi-pool variant): the    *)
(* pool registry, the connectivity probe sql_connect, the query executor   *)
(* sql_query, the route handlers registered by init(), the shutdown hook   *)
(* exit(), and the signed-URL validity window of                           *)
(* constructBlobUrlWithAccountKey.                                         *)
(*                                                                         *)
(* One action is one turn of the Node.js event loop: the synchronous part  *)
(* of a callback together with the promise continuations (microtasks) it   *)
(* makes runnable.  An `await` whose promise is settled by I/O ends the    *)
(* turn; the continuation runs in the turn of the I/O event that settles   *)
(* the promise.  The pool serving its queue is a step of its own.          *)
(***************************************************************************)
EXTENDS Integers, Sequences, FiniteSets, TLC

\* ------------------------------------------------------------------ bounds
MaxRequests == 2      \* requests served in one run of the full system
MaxConcurrent == 4    \* requests of the exhaustion scenario (N > max)
MaxResultRequests == 2  \* requests whose results are compared
MaxExit == 2          \* calls of the shutdown hook
MaxRows == 1          \* rows a backend reports for one statement
MaxInstant == 1500    \* issuance instants, in minutes of UTC

\* ------------------------------------------------------- program constants
ValidityMinutes == 15

shannon_config == [max |-> 3]
tolka_config == [max |-> 3]
liffey_config == [max |-> 3]

\* The pools created at module load.
Pools == {"shannon", "tolka", "liffey"}

PoolConfig(p) ==
    CASE p = "shannon" -> shannon_config
      [] p = "tolka" -> tolka_config
      [] p = "liffey" -> liffey_config

\* The routes init() registers: path, what the handler does, bound pool.
RegisteredRoutes ==
    { [path |-> "/probe", kind |-> "probe", pool |-> "none"],
      [path |-> "/sql_query", kind |-> "sql", pool |-> "shannon"],
      [path |-> "/shannon_sql query", kind |-> "sql", pool |-> "shannon"],
      [path |-> "/tolka_sql_query", kind |-> "sql", pool |-> "tolka"],
      [path |-> "/get_blob_url", kind |-> "blob", pool |-> "none"] }

\* The pools exit() closes, in call order.
\* (Faulty variant: tolka_pool is not closed.)
ExitPools_closesOnlyShannon == <<"shannon">>
ExitPools == <<"shannon", "tolka">>

\* Error codes with which establishing a connection can fail.
ConnectErrors == {"ETIMEDOUT", "ECONNREFUSED"}
\* pool.connect() on a pool on which end() was called.
PoolEndedError == "Cannot use a pool after calling end on the pool"
\* pool.end() on a pool on which end() was called.
EndTwiceError == "Called end on pool more than once"
QueryError == "QueryError"

VARIABLES
    router,     \* routes registered on the host's router
    req,        \* per request: the route it came in on
    pool,       \* per pool: the pooling library's bookkeeping
    nreq,       \* number of requests received so far
    probe,      \* per request: the sql_connect call started by its handler
    query,      \* per request: the sql_query call started by its handler
    resp,       \* per request: the HTTP response sent
    unhandled,  \* promise rejections no handler was attached to
    exitCalls,  \* number of exit() calls made
    now,        \* wall clock, minutes of UTC
    tz,         \* local time zone of the process
    grant       \* the last signed-URL grant built

vars == <<router, req, pool, nreq, probe, query, resp, unhandled, exitCalls, now, tz, grant>>
sqlVars == <<router, req, pool, nreq, probe, query, resp, unhandled, exitCalls>>
blobVars == <<now, tz, grant>>

ProbeTask(r) == <<"probe", r>>
QueryTask(r) == <<"query", r>>

\* ---------------------------------------------------------------- pg Pool
NewPool == [clients |-> 0, idle |-> 0, pending |-> <<>>, connecting |-> {},
            ending |-> FALSE, ended |-> FALSE]

PoolIsFull(p, P) == P.clients >= PoolConfig(p).max

\* pool.connect(): rejects on an ending pool; queues the caller when the
\* pool is full or has idle clients (the queue is served by PulseQueue);
\* otherwise starts connecting a new client for the caller.
PoolConnect(p, P, t) ==
    IF P.ending THEN [pool |-> P, err |-> PoolEndedError]
    ELSE IF PoolIsFull(p, P) \/ P.idle > 0
         THEN [pool |-> [P EXCEPT !.pending = Append(@, t)], err |-> "none"]
         ELSE [pool |-> [P EXCEPT !.clients = @ + 1, !.connecting = @ \cup {t}],
               err |-> "none"]

\* client.release(): on an ending pool the client is removed, and the pool
\* is ended once it has no client left; otherwise the client becomes idle.
PoolRelease(P) ==
    IF P.ending
    THEN [P EXCEPT !.clients = @ - 1, !.ended = (P.clients - 1 = 0)]
    ELSE [P EXCEPT !.idle = @ + 1]

\* pool.end() on a pool not yet ending: idle clients are removed, the pool
\* is ended once it has no client left.
PoolEnd(P) ==
    [P EXCEPT !.ending = TRUE, !.clients = @ - P.idle, !.idle = 0,
              !.ended = (P.clients - P.idle = 0)]

\* ------------------------------------------------------------ sql_connect
NoResult == [command |-> "none", rowCount |-> 0, rows |-> <<>>]

\* A call of sql_connect or sql_query not yet made.
NewCall == [pc |-> "idle", pool |-> "none", acq |-> 0, rel |-> 0,
            relTo |-> "none", holds |-> FALSE, connErr |-> "none",
            err |-> "none", res |-> NoResult]

\* The catch block of sql_connect: a timeout is logged and swallowed, any
\* other error is rethrown.
\* (Faulty variant: the timeout is rethrown too, as in the single-pool
\* plugin.)
sql_connect_catch_rethrowsAll(code) == "rejected"
sql_connect_catch(code) ==
    IF code = "ETIMEDOUT" THEN "resolved" ELSE "rejected"

\* sql_connect after `await pool.connect()` yielded a client: the client
\* is released at once.
sql_connect_acquired(c) ==
    [c EXCEPT !.pc = "resolved", !.acq = @ + 1, !.rel = @ + 1, !.relTo = c.pool]

\* sql_connect after `await pool.connect()` threw.
sql_connect_failed(c, code) ==
    [c EXCEPT !.pc = sql_connect_catch(code), !.connErr = code,
              !.err = IF sql_connect_catch(code) = "rejected" THEN code ELSE "none"]

\* The handlers call sql_connect without awaiting it: a rejection of its
\* promise reaches no catch block.
ProbeRejections(r, c) ==
    IF c.pc = "rejected"
    THEN {[from |-> "sql_connect", req |-> r, pool |-> c.pool, err |-> c.err]}
    ELSE {}

\* -------------------------------------------------------------- sql_query
\* client.query(text, params): the answers of the backend.  A statement
\* that returns its rows reports their number as rowCount; a statement
\* that only affects rows reports the number affected and returns no row.
RowList(n) == [i \in 1..n |-> i]

QueryResults ==
    { [command |-> "SELECT", rowCount |-> n, rows |-> RowList(n)] : n \in 0..MaxRows }
    \cup { [command |-> "UPDATE", rowCount |-> n, rows |-> <<>>] : n \in 0..MaxRows }
    \cup { [command |-> "UPDATE RETURNING", rowCount |-> n, rows |-> RowList(n)] :
             n \in 0..MaxRows }

\* The finally block of sql_query releases the client on both paths.
\* (Faulty variant: the release sits at the end of the try block.)
sql_query_releases_onSuccessOnly(failed) == ~failed
sql_query_releases(failed) == TRUE

\* sql_query after `await pool.connect()` threw: no client was borrowed,
\* the error leaves sql_query before its try block.
sql_query_connect_failed(c, code) ==
    [c EXCEPT !.pc = "rejected", !.connErr = code, !.err = code]

\* sql_query after `await pool.connect()` yielded a client: the query is
\* sent on it.
sql_query_acquired(c) ==
    [c EXCEPT !.pc = "awaitQuery", !.acq = @ + 1, !.holds = TRUE]

\* sql_query after `await client.query()` settled.
sql_query_settled(c, failed, res) ==
    LET released == sql_query_releases(failed) IN
    [c EXCEPT !.pc = IF failed THEN "rejected" ELSE "resolved",
              !.err = IF failed THEN QueryError ELSE "none",
              !.res = res,
              !.rel = IF released THEN @ + 1 ELSE @,
              !.relTo = IF released THEN c.pool ELSE @,
              !.holds = ~released]

\* ----------------------------------------------------------- route handler
NoResponse == [status |-> 0, body |-> <<>>, text |-> "none"]

\* res.json(result.rows)
\* (Faulty variant: the row count is sent in place of the rows.)
handler_json_sendsCount(res) == [status |-> 200, body |-> <<res.rowCount>>, text |-> "json"]
handler_json(res) == [status |-> 200, body |-> res.rows, text |-> "json"]

\* res.status(500).send('Internal Server Error')
handler_catch == [status |-> 500, body |-> <<>>, text |-> "Internal Server Error"]

\* The response of the handler once its `await sql_query(...)` settled.
handler_respond(q) ==
    IF q.pc = "resolved" THEN handler_json(q.res)
    ELSE IF q.pc = "rejected" THEN handler_catch
    ELSE NoResponse

NoRequest == [path |-> "none", pool |-> "none", afterExit |-> FALSE]

\* ------------------------------------------------------------------- init
\* init(router): registers the routes.
PluginInit ==
    /\ router = {}
    /\ router' = RegisteredRoutes
    /\ UNCHANGED <<req, pool, nreq, probe, query, resp, unhandled, exitCalls>>
    /\ UNCHANGED blobVars

\* A request on a registered sql_query-family route: the handler calls
\* sql_connect(pool) without awaiting it, then awaits sql_query(pool, ...).
\* Both calls reach their pool.connect() in this turn; a connect() that
\* rejects at once (ending pool) has its continuations run in this turn.
Request(r, rt) ==
    /\ rt \in router
    /\ rt.kind = "sql"
    /\ r = nreq + 1
    /\ r \in DOMAIN req
    /\ LET p == rt.pool
           c1 == PoolConnect(p, pool[p], ProbeTask(r))
           c2 == PoolConnect(p, c1.pool, QueryTask(r))
           pr0 == [NewCall EXCEPT !.pc = "awaitConnect", !.pool = p]
           pr == IF c1.err = "none" THEN pr0 ELSE sql_connect_failed(pr0, c1.err)
           q == IF c2.err = "none" THEN pr0 ELSE sql_query_connect_failed(pr0, c2.err)
       IN /\ pool' = [pool EXCEPT ![p] = c2.pool]
          /\ probe' = [probe EXCEPT ![r] = pr]
          /\ query' = [query EXCEPT ![r] = q]
          /\ resp' = [resp EXCEPT ![r] = handler_respond(q)]
          /\ unhandled' = unhandled \cup ProbeRejections(r, pr)
          /\ req' = [req EXCEPT ![r] = [path |-> rt.path, pool |-> p,
                                        afterExit |-> exitCalls > 0]]
    /\ nreq' = r
    /\ UNCHANGED <<router, exitCalls>>
    /\ UNCHANGED blobVars

\* The continuation of task t once pool.connect() handed it a client taken
\* from pool record P: the probe releases it at once, the query is sent.
Acquire(p, P, t) ==
    LET r == t[2] IN
    IF t[1] = "probe"
    THEN /\ probe' = [probe EXCEPT ![r] = sql_connect_acquired(probe[r])]
         /\ pool' = [pool EXCEPT ![p] = PoolRelease(P)]
         /\ UNCHANGED query
    ELSE /\ query' = [query EXCEPT ![r] = sql_query_acquired(query[r])]
         /\ pool' = [pool EXCEPT ![p] = P]
         /\ UNCHANGED probe

\* A client the pool was connecting for task t is connected.
ClientConnected(p, t) ==
    /\ t \in pool[p].connecting
    /\ Acquire(p, [pool[p] EXCEPT !.connecting = @ \ {t}], t)
    /\ UNCHANGED <<router, req, nreq, resp, unhandled, exitCalls>>
    /\ UNCHANGED blobVars

\* A client the pool was connecting for task t fails to connect: the pool
\* drops it and task t's pool.connect() rejects with the error.
ClientConnectFailed(p, t, code) ==
    /\ t \in pool[p].connecting
    /\ LET r == t[2]
           P == [pool[p] EXCEPT !.connecting = @ \ {t}, !.clients = @ - 1,
                                !.ended = (pool[p].ending /\ pool[p].clients - 1 = 0)]
       IN /\ pool' = [pool EXCEPT ![p] = P]
          /\ IF t[1] = "probe"
             THEN LET pr == sql_connect_failed(probe[r], code) IN
                  /\ probe' = [probe EXCEPT ![r] = pr]
                  /\ unhandled' = unhandled \cup ProbeRejections(r, pr)
                  /\ UNCHANGED <<query, resp>>
             ELSE LET q == sql_query_connect_failed(query[r], code) IN
                  /\ query' = [query EXCEPT ![r] = q]
                  /\ resp' = [resp EXCEPT ![r] = handler_respond(q)]
                  /\ UNCHANGED <<probe, unhandled>>
    /\ UNCHANGED <<router, req, nreq, exitCalls>>
    /\ UNCHANGED blobVars

\* The pool serves the head of its queue: with an idle client if there is
\* one, else by connecting a new client if the pool is not full.
PulseQueue(p) ==
    /\ ~pool[p].ending
    /\ pool[p].pending # <<>>
    /\ pool[p].idle > 0 \/ ~PoolIsFull(p, pool[p])
    /\ LET t == Head(pool[p].pending)
           P == [pool[p] EXCEPT !.pending = Tail(@)]
       IN IF P.idle > 0
          THEN Acquire(p, [P EXCEPT !.idle = @ - 1], t)
          ELSE /\ pool' = [pool EXCEPT ![p] = [P EXCEPT !.clients = @ + 1,
                                                        !.connecting = @ \cup {t}]]
               /\ UNCHANGED <<probe, query>>
    /\ UNCHANGED <<router, req, nreq, resp, unhandled, exitCalls>>
    /\ UNCHANGED blobVars

\* The backend answers the query of request r: sql_query logs, releases
\* the client and returns or rethrows; the handler responds.
QueryDone(r, failed, res) ==
    /\ r \in DOMAIN query
    /\ query[r].pc = "awaitQuery"
    /\ LET q == sql_query_settled(query[r], failed, res)
           p == query[r].pool
       IN /\ query' = [query EXCEPT ![r] = q]
          /\ pool' = [pool EXCEPT ![p] = IF q.holds THEN pool[p] ELSE PoolRelease(pool[p])]
          /\ resp' = [resp EXCEPT ![r] = handler_respond(q)]
    /\ UNCHANGED <<router, req, nreq, probe, unhandled, exitCalls>>
    /\ UNCHANGED blobVars

\* ------------------------------------------------------------------- exit
\* sql_closeConnection(pool): pool.end() rejects on a pool already ending,
\* and the error is rethrown.
sql_closeConnection(P) ==
    IF P.ending THEN [pool |-> P, err |-> EndTwiceError]
    ELSE [pool |-> PoolEnd(P), err |-> "none"]

Range(s) == {s[i] : i \in DOMAIN s}

\* exit(): calls sql_closeConnection on each pool of ExitPools without
\* awaiting or catching it.
Exit ==
    /\ router # {}
    /\ exitCalls < MaxExit
    /\ exitCalls' = exitCalls + 1
    /\ pool' = [p \in Pools |-> IF p \in Range(ExitPools)
                                 THEN sql_closeConnection(pool[p]).pool
                                 ELSE pool[p]]
    /\ unhandled' = unhandled \cup
          { [from |-> "sql_closeConnection", req |-> exitCalls + 1, pool |-> p,
             err |-> sql_closeConnection(pool[p]).err] :
              p \in {x \in Range(ExitPools) : sql_closeConnection(pool[x]).err # "none"} }
    /\ UNCHANGED <<router, req, nreq, probe, query, resp>>
    /\ UNCHANGED blobVars

\* ------------------------------------------------------------- signed URL
\* The local time zones of the process: no clock change; clocks set back
\* one hour at 02:00 local time (UTC minute 60); clocks set forward one
\* hour at 02:00 local time (UTC minute 120).
Zones == {"UTC", "FALLBACK", "SPRING"}

\* Minutes the local clock is ahead of UTC at UTC instant u.
Offset(z, u) ==
    CASE z = "UTC" -> 0
      [] z = "FALLBACK" -> IF u < 60 THEN 60 ELSE 0
      [] z = "SPRING" -> IF u < 120 THEN 0 ELSE 60

\* Date's LocalTime(t).
LocalTime(z, t) == t + Offset(z, t)

SetMin(S) == CHOOSE x \in S : \A y \in S : x <= y

\* Date's UTC(t): a local time that occurs twice or is skipped is read
\* with the offset in force before the clock change.
UTC(z, tl) ==
    LET cands == {u \in (tl - 60)..tl : u + Offset(z, u) = tl} IN
    IF cands # {} THEN SetMin(cands) ELSE tl - Offset(z, tl - 60)

\* Fields of a local time value.
Day(tl) == tl \div 1440
HourFromTime(tl) == (tl \div 60) % 24
MinFromTime(tl) == tl % 60

MakeTime(hour, min) == hour * 60 + min
MakeDate(day, time) == day * 1440 + time

\* date.getMinutes()
getMinutes(z, t) == MinFromTime(LocalTime(z, t))

\* date.setMinutes(m): replaces the minutes field of the local time.
setMinutes(z, t, m) ==
    LET tl == LocalTime(z, t) IN
    UTC(z, MakeDate(Day(tl), MakeTime(HourFromTime(tl), m)))

\* The validity window constructBlobUrlWithAccountKey signs at instant t.
constructBlobUrlWithAccountKey(z, t) ==
    [issued |-> TRUE, startsOn |-> t,
     expiresOn |-> setMinutes(z, t, getMinutes(z, t) + ValidityMinutes)]

\* A request on /get_blob_url: a grant is built at the current instant.
GetBlobUrl ==
    /\ \E rt \in router : rt.kind = "blob"
    /\ ~grant.issued
    /\ grant' = constructBlobUrlWithAccountKey(tz, now)
    /\ UNCHANGED <<now, tz>>
    /\ UNCHANGED sqlVars

\* ---------------------------------------------------------- specification
InitFor(N) ==
    /\ router = {}
    /\ req = [r \in 1..N |-> NoRequest]
    /\ pool = [p \in Pools |-> NewPool]
    /\ nreq = 0
    /\ probe = [r \in 1..N |-> NewCall]
    /\ query = [r \in 1..N |-> NewCall]
    /\ resp = [r \in 1..N |-> NoResponse]
    /\ unhandled = {}
    /\ exitCalls = 0
    /\ now = 0
    /\ tz = "UTC"
    /\ grant = [issued |-> FALSE, startsOn |-> 0, expiresOn |-> 0]

Init == InitFor(MaxRequests)

Tasks == {ProbeTask(r) : r \in DOMAIN req} \cup {QueryTask(r) : r \in DOMAIN req}

SqlRoutes == {rt \in RegisteredRoutes : rt.kind = "sql"}

\* The answer of a query whose rows are of no interest.
SomeResult == [command |-> "SELECT", rowCount |-> MaxRows, rows |-> RowList(MaxRows)]

\* The pool's own steps: connection attempts settle, the queue is served.
PoolStep(codes) ==
    \/ \E p \in Pools, t \in Tasks : ClientConnected(p, t)
    \/ \E p \in Pools, t \in Tasks, code \in codes : ClientConnectFailed(p, t, code)
    \/ \E p \in Pools : PulseQueue(p)

\* The plugin from load to unload: requests on every sql_query-family
\* route, interleaved with exit().
Next ==
    \/ PluginInit
    \/ \E r \in DOMAIN req, rt \in SqlRoutes : Request(r, rt)
    \/ PoolStep(ConnectErrors)
    \/ \E r \in DOMAIN req : QueryDone(r, FALSE, SomeResult)
    \/ \E r \in DOMAIN req : QueryDone(r, TRUE, NoResult)
    \/ Exit

Spec == Init /\ [][Next]_vars

\* Requests on /sql_query answered with every kind of result.
ResultInit == InitFor(MaxResultRequests)

ResultNext ==
    \/ PluginInit
    \/ \E r \in DOMAIN req, rt \in {x \in SqlRoutes : x.path = "/sql_query"} : Request(r, rt)
    \/ PoolStep(ConnectErrors)
    \/ \E r \in DOMAIN req, res \in QueryResults : QueryDone(r, FALSE, res)
    \/ \E r \in DOMAIN req : QueryDone(r, TRUE, NoResult)

ResultSpec == ResultInit /\ [][ResultNext]_vars

\* MaxConcurrent requests on /sql_query, more than the pool's max, with
\* connection attempts and queries that terminate.
LiveInit == InitFor(MaxConcurrent)

LiveNext ==
    \/ PluginInit
    \/ \E r \in DOMAIN req, rt \in {x \in SqlRoutes : x.path = "/sql_query"} : Request(r, rt)
    \/ PoolStep({"ECONNREFUSED"})
    \/ \E r \in DOMAIN req : QueryDone(r, FALSE, SomeResult)
    \/ \E r \in DOMAIN req : QueryDone(r, TRUE, NoResult)

\* Connection attempts settle, the queue is served, queries terminate.
LiveSpec ==
    /\ LiveInit
    /\ [][LiveNext]_vars
    /\ WF_vars(PoolStep({"ECONNREFUSED"}))
    /\ WF_vars(\E r \in DOMAIN req : QueryDone(r, FALSE, SomeResult))

\* Signed URLs issued at every instant in every zone.
BlobInit ==
    /\ router = {}
    /\ req = [r \in 1..1 |-> NoRequest]
    /\ pool = [p \in Pools |-> NewPool]
    /\ nreq = 0
    /\ probe = [r \in 1..1 |-> NewCall]
    /\ query = [r \in 1..1 |-> NewCall]
    /\ resp = [r \in 1..1 |-> NoResponse]
    /\ unhandled = {}
    /\ exitCalls = 0
    /\ now \in 0..MaxInstant
    /\ tz \in Zones
    /\ grant = [issued |-> FALSE, startsOn |-> 0, expiresOn |-> 0]

BlobNext ==
    \/ PluginInit
    \/ GetBlobUrl

BlobSpec == BlobInit /\ [][BlobNext]_vars

\* ----------------------------------------------------------------- claims
Finished(c) == c.pc \in {"resolved", "rejected"}

\* Connections of pool p that calls of sql_query currently hold.
Borrowed(p) == Cardinality({r \in DOMAIN query : query[r].holds /\ query[r].pool = p})

\* Clients of pool p that the pool has lent out.
CheckedOut(p) == pool[p].clients - pool[p].idle - Cardinality(pool[p].connecting)

\* No call of sql_connect or sql_query is waiting for a promise.
Quiescent ==
    \A r \in DOMAIN req :
        /\ probe[r].pc \in {"idle", "resolved", "rejected"}
        /\ query[r].pc \in {"idle", "resolved", "rejected"}

\* C1: a call of sql_query that borrowed a connection releases it to the
\* pool it came from exactly once, whether the query resolved or threw, and
\* not before the query settled; a finished call holds no connection, and
\* the clients each pool has lent out are exactly those the calls hold.
C1_QueryBracket ==
    /\ \A r \in DOMAIN query :
         LET q == query[r] IN
         /\ q.pc = "awaitQuery" => q.acq = 1 /\ q.rel = 0 /\ q.holds
         /\ Finished(q) =>
              /\ ~q.holds
              /\ q.acq = 1 => q.rel = 1 /\ q.relTo = req[r].pool
              /\ q.acq = 0 => q.rel = 0
    /\ \A p \in Pools : CheckedOut(p) = Borrowed(p)

\* A query threw on a borrowed connection and another one resolved.
C1_Witness ==
    \E r1, r2 \in DOMAIN query :
        /\ query[r1].pc = "rejected" /\ query[r1].err = QueryError /\ query[r1].rel = 1
        /\ query[r2].pc = "resolved" /\ query[r2].rel = 1

\* C2: with more concurrent requests than the pool's max, the connections
\* borrowed from a pool never exceed its max, and every request received
\* is eventually answered (a response, once sent, stays sent: from some
\* point on the request is answered if it was received at all).
C2_NoExhaustion ==
    /\ [](\A p \in Pools : Borrowed(p) <= PoolConfig(p).max)
    /\ \A r \in 1..MaxConcurrent : <>[](nreq >= r => resp[r].status # 0)

\* All requests are in, the pool has lent max connections to queries and
\* a request waits in the pool's queue.
C2_Witness ==
    /\ nreq = MaxConcurrent
    /\ nreq > PoolConfig("shannon").max
    /\ Borrowed("shannon") = PoolConfig("shannon").max
    /\ pool["shannon"].pending # <<>>
    /\ \E r \in DOMAIN resp : nreq >= r /\ resp[r].status = 0

\* C3: every error raised for a request, by sql_connect or by sql_query,
\* becomes a 500 'Internal Server Error' response, and no rejection raised
\* for a request is left unhandled.
C3_ErrorsBecome500 ==
    /\ \A r \in DOMAIN req :
         (probe[r].pc = "rejected" \/ query[r].pc = "rejected") /\ resp[r].status # 0
            => resp[r].status = 500 /\ resp[r].text = "Internal Server Error"
    /\ \A u \in unhandled : u.from # "sql_connect"

\* C4: once exit() was called and no call is waiting any more, every pool
\* of the registry is closed.
C4_AllPoolsClosed ==
    (exitCalls > 0 /\ Quiescent) => \A p \in Pools : pool[p].ended

\* C5: after exit() was called twice, no rejection of a pool close is
\* left unhandled.
C5_ExitTwiceSafe ==
    exitCalls >= 2 => \A u \in unhandled : u.from # "sql_closeConnection"

\* C6: a request received after exit() began borrows no connection and is
\* answered 500.
C6_LateRequestsFail ==
    \A r \in DOMAIN req :
        req[r].afterExit =>
            /\ probe[r].acq = 0
            /\ query[r].acq = 0
            /\ query[r].pc = "rejected"
            /\ resp[r].status = 500

\* Requests on the routes of both pools were received after exit().
C6_Witness ==
    \E r1, r2 \in DOMAIN req :
        /\ req[r1].afterExit /\ req[r1].pool = "shannon" /\ resp[r1].status = 500
        /\ req[r2].afterExit /\ req[r2].pool = "tolka" /\ resp[r2].status = 500

BackendRoutePath(b) == "/" \o b \o "_sql_query"

\* C7: once init() ran, every backend pool has its route
\* /<backend>_sql_query, and a request on a backend's route uses that
\* backend's pool only.
C7_EveryBackendRouted ==
    router # {} =>
        /\ \A b \in Pools :
             \E rt \in router :
                 rt.path = BackendRoutePath(b) /\ rt.kind = "sql" /\ rt.pool = b
        /\ \A r \in DOMAIN req, b \in Pools :
             req[r].path = BackendRoutePath(b) =>
                 /\ probe[r].pool = b /\ query[r].pool = b
                 /\ \A p \in Pools \ {b} :
                      ProbeTask(r) \notin pool[p].connecting
                      /\ QueryTask(r) \notin pool[p].connecting

ReturnsRows(command) == command \in {"SELECT", "UPDATE RETURNING"}

C9_ExpiresAfter15Minutes ==
    grant.issued =>
        /\ grant.startsOn = now
        /\ grant.expiresOn = grant.startsOn + ValidityMinutes

\* C10: a finished sql_connect holds no connection; it borrowed and
\* released one connection when acquisition succeeded, returned normally
\* on ETIMEDOUT, and rejected with the same error on any other error.
C10_ProbeContract ==
    \A r \in DOMAIN probe :
        LET c == probe[r] IN
        Finished(c) =>
            /\ ~c.holds
            /\ c.acq = c.rel
            /\ c.connErr = "none" =>
                 c.pc = "resolved" /\ c.acq = 1 /\ c.rel = 1 /\ c.relTo = req[r].pool
            /\ c.connErr = "ETIMEDOUT" =>
                 c.pc = "resolved" /\ c.acq = 0 /\ c.err = "none"
            /\ c.connErr \notin {"none", "ETIMEDOUT"} =>
                 c.pc = "rejected" /\ c.acq = 0 /\ c.err = c.connErr

\* One probe swallowed a timeout and another borrowed and released a
\* connection.
C10_Witness ==
    \E r1, r2 \in DOMAIN probe :
        /\ probe[r1].pc = "resolved" /\ probe[r1].connErr = "ETIMEDOUT"
        /\ probe[r2].pc = "resolved" /\ probe[r2].acq = 1 /\ probe[r2].rel = 1

====
